---- MODULE Spec2Model ----
(***************************************************************************)
(* Model of the shadcn-variables Figma plugin (src/code.ts): the colour    *)
(* converter, the alias resolver, the collection selector and variable     *)
(* filter, and the export run driven by the "start-export" message.        *)
(*                                                                         *)
(* JavaScript strings are sequences of one-character strings, so that      *)
(* toLowerCase, includes, startsWith, substring, replace and the hex       *)
(* pattern are computed character by character as the code computes them. *)
(* Numbers are fixed-point integers; a number that may be NaN is a record  *)
(* [nan, v].                                                               *)
(***************************************************************************)
EXTENDS Integers, Sequences, FiniteSets, TLC

\* The number of "start-export" messages the presentation layer sends.
MaxRuns == 2

----------------------------------------------------------------------------
(* Strings *)

UpperChars == <<"A","B","C","D","E","F","G","H","I","J","K","L","M",
                "N","O","P","Q","R","S","T","U","V","W","X","Y","Z">>
LowerChars == <<"a","b","c","d","e","f","g","h","i","j","k","l","m",
                "n","o","p","q","r","s","t","u","v","w","x","y","z">>
DigitChars == <<"0","1","2","3","4","5","6","7","8","9">>
HexChars   == <<"0","1","2","3","4","5","6","7","8","9",
                "a","b","c","d","e","f">>

Range(s) == {s[i] : i \in DOMAIN s}

\* String.prototype.toLowerCase, one character
toLowerChar(c) ==
    IF \E i \in DOMAIN UpperChars : UpperChars[i] = c
    THEN LowerChars[CHOOSE i \in DOMAIN UpperChars : UpperChars[i] = c]
    ELSE c

\* String.prototype.toLowerCase
toLowerCase(s) == [i \in DOMAIN s |-> toLowerChar(s[i])]

\* String.prototype.slice(from, to) with 0-based, end-exclusive indexes
slice(s, from, to) ==
    LET hi == IF to > Len(s) THEN Len(s) ELSE to
    IN  IF from >= hi THEN <<>> ELSE SubSeq(s, from + 1, hi)

\* String.prototype.includes
includes(s, sub) ==
    \E i \in 0..Len(s) : slice(s, i, i + Len(sub)) = sub /\ i + Len(sub) <= Len(s)

\* String.prototype.startsWith
startsWith(s, prefix) ==
    Len(prefix) <= Len(s) /\ slice(s, 0, Len(prefix)) = prefix

\* String.prototype.substring(n)
substring(s, n) == slice(s, n, Len(s))

\* String.prototype.replace(/\//g, '-')
replaceSlashes(s) == [i \in DOMAIN s |-> IF s[i] = "/" THEN "-" ELSE s[i]]

\* String.prototype.replace('#', ''): the first "#" only
removeHash(s) ==
    IF \E i \in DOMAIN s : s[i] = "#"
    THEN LET k == CHOOSE i \in DOMAIN s :
                     s[i] = "#" /\ \A j \in 1..(i - 1) : s[j] # "#"
         IN  SubSeq(s, 1, k - 1) \o SubSeq(s, k + 1, Len(s))
    ELSE s

Str_mode  == <<"m","o","d","e">>
Str_light == <<"l","i","g","h","t">>
Str_dark  == <<"d","a","r","k">>
Str_base  == <<"b","a","s","e","/">>

----------------------------------------------------------------------------
(* Numbers *)

Num(n) == [nan |-> FALSE, v |-> n]
NaN    == [nan |-> TRUE, v |-> 0]

\* a < b on JavaScript numbers: false when either side is NaN
LessThan(a, b) == ~a.nan /\ ~b.nan /\ a.v < b.v

\* the value of one hex digit, either case
HexDigitValue(c) ==
    LET l == toLowerChar(c)
    IN  (CHOOSE i \in DOMAIN HexChars : HexChars[i] = l) - 1

IsHexDigit(c) == \E i \in DOMAIN HexChars : HexChars[i] = toLowerChar(c)

RECURSIVE HexPrefixValue(_, _)
HexPrefixValue(s, acc) ==
    IF s = <<>> \/ ~IsHexDigit(Head(s)) THEN acc
    ELSE HexPrefixValue(Tail(s), acc * 16 + HexDigitValue(Head(s)))

\* parseInt(s, 16): the longest prefix of hex digits, NaN when there is none
parseInt16(s) ==
    IF s = <<>> \/ ~IsHexDigit(Head(s)) THEN NaN ELSE Num(HexPrefixValue(s, 0))

RECURSIVE toString16(_)
\* Number.prototype.toString(16) of a non-negative integer
toString16(n) ==
    IF n < 16 THEN <<HexChars[n + 1]>>
    ELSE toString16(n \div 16) \o <<HexChars[(n % 16) + 1]>>

\* Number(x.toFixed(d)): x in units of 10^-(d+k), the result in units of
\* 10^-d, rounding half up (x is never negative here); step = 10^k
toFixed(x, step) ==
    IF x.nan THEN NaN ELSE Num((x.v + step \div 2) \div step)

----------------------------------------------------------------------------
(* Values the host holds for a variable in a mode, and resolver results *)

\* an RGB(A) object: channels are floats in [0,1], in thousandths
Rgb(r, g, b)       == [kind |-> "rgb", r |-> r, g |-> g, b |-> b]
StringValue(chars) == [kind |-> "string", chars |-> chars]
Alias(id)          == [kind |-> "alias", id |-> id]
NumberValue(n)     == [kind |-> "number", n |-> n]
Undefined          == [kind |-> "undefined"]

\* the resolver's results: null, or the string `oklch(${L} ${C} ${H})`
Null               == [kind |-> "null"]
OklchString(L, C, H) == [kind |-> "oklch", L |-> L, C |-> C, H |-> H]

\* !value
Falsy(value) ==
    \/ value.kind \in {"undefined", "null"}
    \/ value.kind = "string" /\ value.chars = <<>>
    \/ value.kind = "number" /\ value.n = 0

----------------------------------------------------------------------------
(* Colorimetric converter *)

\* rgbToOklch on the colours of the model, computed with the code's
\* constants in IEEE doubles: L and C in units of 10^-6, H in 10^-4 degrees
OklchTable ==
    <<255, 255, 255>> :> [L |-> 999999, C |-> 86,     H |-> 2632830] @@
    <<0, 0, 0>>       :> [L |-> 0,      C |-> 0,      H |-> 0] @@
    <<2, 8, 23>>      :> [L |-> 136269, C |-> 36420,  H |-> 2592074] @@
    <<170, 187, 204>> :> [L |-> 784433, C |-> 30736,  H |-> 2482552] @@
    <<171, 205, 14>>  :> [L |-> 794990, C |-> 188465, H |-> 1210492] @@
    <<128, 128, 128>> :> [L |-> 599870, C |-> 52,     H |-> 2632830] @@
    <<255, 0, 0>>     :> [L |-> 627986, C |-> 257640, H |-> 292271] @@
    <<4, 4, 5>>       :> [L |-> 107505, C |-> 3705,   H |-> 2857101]

\* a NaN channel makes every product and sum NaN
rgbToOklch(r, g, b) ==
    IF r.nan \/ g.nan \/ b.nan THEN [L |-> NaN, C |-> NaN, H |-> NaN]
    ELSE LET t == OklchTable[<<r.v, g.v, b.v>>]
         IN  [L |-> Num(t.L), C |-> Num(t.C), H |-> Num(t.H)]

\* hex.split('').map(char => char + char).join('')
doubleChars(hex) == [i \in 1..(2 * Len(hex)) |-> hex[(i + 1) \div 2]]

\* C < 0.004, on C rounded to thousandths
achromatic(C) == LessThan(C, Num(4))

hexToOklch(hexIn) ==
    LET h0    == removeHash(hexIn)
        hex   == IF Len(h0) = 3 THEN doubleChars(h0) ELSE h0
        r     == parseInt16(slice(hex, 0, 2))
        g     == parseInt16(slice(hex, 2, 4))
        b     == parseInt16(slice(hex, 4, 6))
        oklch == rgbToOklch(r, g, b)
        L     == toFixed(oklch.L, 1000)
        C     == toFixed(oklch.C, 1000)
        H     == toFixed(oklch.H, 1000)
    IN  IF achromatic(C) THEN OklchString(L, Num(0), Num(0))
        ELSE OklchString(L, C, H)

\* toHex(n): Math.round(n * 255).toString(16), padded to two digits
toHex(n) ==
    LET hex == toString16((n * 255 + 500) \div 1000)
    IN  IF Len(hex) = 1 THEN <<"0">> \o hex ELSE hex

figmaRgbToHex(rgb) == <<"#">> \o toHex(rgb.r) \o toHex(rgb.g) \o toHex(rgb.b)

----------------------------------------------------------------------------
(* Value shapes the resolver tells apart *)

\* typeof value === 'object' && 'r' in value && 'g' in value && 'b' in value
isRgbObject(value) == value.kind = "rgb"

\* /^#[0-9A-Fa-f]{3,6}$/.test(value)
hexPattern(chars) ==
    /\ Len(chars) >= 1 + 3
    /\ Len(chars) <= 1 + 6
    /\ chars[1] = "#"
    /\ \A i \in 2..Len(chars) : IsHexDigit(chars[i])

\* typeof value === 'string' and the hex format guard
isHexString(value) == value.kind = "string" /\ hexPattern(value.chars)

\* typeof value === 'object' && value.type === 'VARIABLE_ALIAS'
isAlias(value) == value.kind = "alias"

----------------------------------------------------------------------------
(* The host's data: the collections and variables of the Figma file *)

Mode(modeId, name) == [modeId |-> modeId, name |-> name]
Collection(id, name, modes) == [id |-> id, name |-> name, modes |-> modes]
Variable(id, name, variableCollectionId, valuesByMode) ==
    [id |-> id, name |-> name, variableCollectionId |-> variableCollectionId,
     valuesByMode |-> valuesByMode]

\* the semantic collection of the spec's scenarios
cMode ==
    Collection("c1", <<"M","o","d","e">>,
        <<Mode("m1", <<"L","i","g","h","t">>),
          Mode("m2", <<"D","a","r","k">>)>>)

\* light and dark under other ids, other case, other order
cTheme ==
    Collection("c2", <<"T","h","e","m","e">>,
        <<Mode("t1", <<"d","a","r","k">>),
          Mode("t2", <<"L","I","G","H","T">>)>>)

\* a single mode, whose id another collection also uses
cConst ==
    Collection("c3", <<"C","o","n","s","t","a","n","t","s">>,
        <<Mode("m2", <<"D","e","f","a","u","l","t">>)>>)

\* two modes, neither light nor dark
cBrand ==
    Collection("c4", <<"B","r","a","n","d">>,
        <<Mode("m1", <<"A">>),
          Mode("b2", <<"B">>)>>)

\* a name containing "mode", but no light mode
cOld ==
    Collection("c5", <<"d","a","r","k"," ","M","O","D","E","S">>,
        <<Mode("o1", <<"D","a","r","k">>),
          Mode("o2", <<"D","i","m">>)>>)

\* a second collection fit for export
cMode2 ==
    Collection("c6", <<"M","o","d","e","s"," ","v","2">>,
        <<Mode("x1", <<"l","i","g","h","t">>),
          Mode("x2", <<"d","a","r","k">>)>>)

\* the collections getVariableCollectionByIdAsync can return
FileCollections == {cMode, cTheme, cConst, cBrand, cOld, cMode2}

vBackground ==
    Variable("v1", <<"b","a","s","e","/","b","a","c","k","g","r","o","u","n","d">>, "c1",
        "m1" :> StringValue(<<"#","f","f","f","f","f","f">>) @@
        "m2" :> StringValue(<<"#","0","2","0","8","1","7">>))

vForeground ==
    Variable("v2", <<"b","a","s","e","/","f","o","r","e","g","r","o","u","n","d">>, "c1",
        "m1" :> Alias("v3") @@
        "m2" :> Alias("v3"))

vInk ==
    Variable("v3", <<"i","n","k">>, "c2",
        "t1" :> Rgb(1000, 0, 0) @@
        "t2" :> StringValue(<<"#","0","0","0">>))

vRing ==
    Variable("v4", <<"b","a","s","e","/","r","i","n","g">>, "c1",
        "m1" :> Alias("v5") @@
        "m2" :> Alias("v5"))

vWhite ==
    Variable("v5", <<"w","h","i","t","e">>, "c3",
        "m2" :> Rgb(1000, 1000, 1000))

vA ==
    Variable("v6", <<"b","a","s","e","/","a">>, "c1",
        "m1" :> Alias("v7") @@
        "m2" :> Rgb(1000, 0, 0))

vB ==
    Variable("v7", <<"b","a","s","e","/","b">>, "c1",
        "m1" :> Alias("v6") @@
        "m2" :> StringValue(<<"#","f","f","f","f","f","f">>))

vCard ==
    Variable("v8", <<"b","a","s","e","/","c","a","r","d","/","h","o","v","e","r"," ","b","g">>, "c1",
        "m1" :> Rgb(500, 500, 500) @@
        "m2" :> StringValue(<<"#","A","B","C">>))

vAccent ==
    Variable("v9", <<"b","a","s","e","/","a","c","c","e","n","t">>, "c1",
        "m1" :> StringValue(<<"#","a","b","c","d">>) @@
        "m2" :> StringValue(<<"#","a","b","c","d","e">>))

vMuted ==
    Variable("v10", <<"b","a","s","e","/","m","u","t","e","d">>, "c1",
        "m1" :> Rgb(0, 0, 0))

vBorder ==
    Variable("v11", <<"b","a","s","e","/","b","o","r","d","e","r">>, "c1",
        "m1" :> Alias("v404") @@
        "m2" :> StringValue(<<"#","f","f","f","f","f","f">>))

vInput ==
    Variable("v12", <<"b","a","s","e","/","i","n","p","u","t">>, "c1",
        "m1" :> StringValue(<<"r","e","d">>) @@
        "m2" :> NumberValue(5))

vPopover ==
    Variable("v13", <<"b","a","s","e","/","p","o","p","o","v","e","r">>, "c1",
        "m1" :> Alias("v14") @@
        "m2" :> Alias("v14"))

vRemote ==
    Variable("v14", <<"r","e","m","o","t","e">>, "c9",
        "m1" :> StringValue(<<"#","f","f","f">>) @@
        "m2" :> StringValue(<<"#","f","f","f">>))

vPrimary ==
    Variable("v15", <<"b","a","s","e","/","p","r","i","m","a","r","y">>, "c1",
        "m1" :> Alias("v16") @@
        "m2" :> Alias("v16"))

vBrandA ==
    Variable("v16", <<"b","r","a","n","d","/","a">>, "c4",
        "m1" :> StringValue(<<"#","f","f","0","0","0","0">>) @@
        "b2" :> StringValue(<<"#","0","0","0","0","0","0">>))

vLoop ==
    Variable("v17", <<"b","a","s","e","/","l","o","o","p">>, "c1",
        "m1" :> Alias("v18") @@
        "m2" :> StringValue(<<"#","0","0","0","0","0","0">>))

vLoopBack ==
    Variable("v18", <<"l","o","o","p","b","a","c","k">>, "c3",
        "m2" :> Alias("v17"))

vPlain ==
    Variable("v19", <<"b","r","a","n","d","/","p","l","a","i","n">>, "c1",
        "m1" :> StringValue(<<"#","f","f","f","f","f","f">>) @@
        "m2" :> StringValue(<<"#","0","0","0","0","0","0">>))

vThemeBase ==
    Variable("v20", <<"b","a","s","e","/","t","h","e","m","e">>, "c2",
        "t1" :> StringValue(<<"#","0","0","0","0","0","0">>) @@
        "t2" :> StringValue(<<"#","f","f","f","f","f","f">>))

vBackground2 ==
    Variable("v21", <<"b","a","s","e","/","b","a","c","k","g","r","o","u","n","d">>, "c6",
        "x1" :> StringValue(<<"#","f","f","f">>) @@
        "x2" :> StringValue(<<"#","0","4","0","4","0","5">>))

vDeep ==
    Variable("v22", <<"b","a","s","e","/","d","e","e","p">>, "c1",
        "m1" :> Alias("v23") @@
        "m2" :> Alias("v23"))

vMid ==
    Variable("v23", <<"m","i","d">>, "c6",
        "x1" :> Alias("v3") @@
        "x2" :> StringValue(<<"#","0","2","0","8","1","7">>))

vVia ==
    Variable("v24", <<"b","a","s","e","/","v","i","a">>, "c1",
        "m1" :> Alias("v25") @@
        "m2" :> Rgb(0, 0, 0))

vHop ==
    Variable("v25", <<"h","o","p">>, "c3",
        "m2" :> Alias("v3"))

vSelf ==
    Variable("v26", <<"b","a","s","e","/","s","e","l","f">>, "c1",
        "m1" :> Alias("v26") @@
        "m2" :> StringValue(<<"#","f","f","f","f","f","f">>))

\* the variables getVariableByIdAsync can return
FileVariables ==
    {vBackground, vForeground, vInk, vRing, vWhite,
     vA, vB, vCard, vAccent, vMuted,
     vBorder, vInput, vPopover, vRemote, vPrimary,
     vBrandA, vLoop, vLoopBack, vPlain, vThemeBase,
     vBackground2, vDeep, vMid, vVia, vHop,
     vSelf}

\* what getLocalVariableCollectionsAsync may return, in enumeration order
LocalCollectionLists ==
    {<<cMode, cTheme, cConst, cBrand>>,
     <<cTheme, cConst>>,
     <<cOld, cMode>>,
     <<cTheme, cMode2, cMode>>,
     <<>>}

\* what getLocalVariablesAsync('COLOR') may return, in enumeration order
LocalVariableLists ==
    {<<vBackground>>,
     <<vForeground, vInk>>,
     <<vRing, vBackground>>,
     <<vA, vB>>,
     <<vCard, vAccent>>,
     <<vMuted, vBorder, vSelf, vInput, vBackground>>,
     <<vPopover>>,
     <<vLoop>>,
     <<vPlain, vThemeBase, vBackground>>,
     <<vPlain, vThemeBase>>,
     <<vBackground2, vBackground>>,
     <<vDeep>>,
     <<vVia, vPrimary>>,
     <<>>}

\* figma.variables.getVariableByIdAsync(id)
getVariableById(id) ==
    IF \E v \in FileVariables : v.id = id
    THEN CHOOSE v \in FileVariables : v.id = id
    ELSE Null

\* figma.variables.getVariableCollectionByIdAsync(id)
getVariableCollectionById(id) ==
    IF \E c \in FileCollections : c.id = id
    THEN CHOOSE c \in FileCollections : c.id = id
    ELSE Null

\* the messages of the errors a host query may reject with
HostErrors == {"Host query failed"}

----------------------------------------------------------------------------
(* State *)

VARIABLES
    collections,    \* the host's answer to getLocalVariableCollectionsAsync
    variables,      \* the host's answer to getLocalVariablesAsync('COLOR')
    runs,           \* one record per call of main(), in order of their start
    closed          \* figma.closePlugin() was called

vars == <<collections, variables, runs, closed>>

\* the host queries a run can be suspended on
Awaiting == {"getLocalVariableCollections", "getLocalVariables",
             "getVariableById", "getAliasedCollection", "getCurrentCollection"}

Error(text, found) == [text |-> text, found |-> found]

ExportComplete(css, variableCount, collectionName) ==
    [type |-> "export-complete", css |-> css, variableCount |-> variableCount,
     collectionName |-> collectionName]

ErrorMessage(message) == [type |-> "error", message |-> message]

\* figma.ui.postMessage(msg) by run st
postMessage(st, msg) == [st EXCEPT !.posted = Append(@, msg)]

\* the run issues a host query and is suspended on it
await(st, query, arg) ==
    [st EXCEPT !.pc = query, !.queries = Append(@, <<query, arg>>)]

\* main() is called: everything up to its first await, which is the one of
\* findModeCollection
newRun ==
    await([pc |-> "start",
           modeCollection |-> Null, lightMode |-> Null, darkMode |-> Null,
           baseVariables |-> <<>>, index |-> 0, phase |-> "light",
           lightValue |-> Null, processedVariables |-> <<>>,
           variable |-> Null, modeId |-> "", visited |-> {},
           aliasedVariable |-> Null, aliasedCollection |-> Null,
           aliasLightMode |-> Null, aliasDarkMode |-> Null,
           posted |-> <<>>,
           \* history, for the properties: the host queries issued, the
           \* resolver invocations of the current top-level call, and the
           \* top-level calls that returned
           queries |-> <<>>, chain |-> <<>>, resolved |-> <<>>],
          "getLocalVariableCollections", "")

----------------------------------------------------------------------------
(* generateShadcnCSS and main *)

\* the .dark block written in the reverse order
generateShadcnCSSDarkReversed(result) ==
    LET n == Len(result.variables)
    IN  [theme |-> [i \in DOMAIN result.variables |->
                       [property |-> <<"-","-","c","o","l","o","r","-">>
                                         \o result.variables[i].cleanName,
                        value |-> result.variables[i].cleanName]],
         root  |-> [i \in DOMAIN result.variables |->
                       [property |-> result.variables[i].cleanName,
                        value |-> result.variables[i].lightValue]],
         dark  |-> [i \in DOMAIN result.variables |->
                       [property |-> result.variables[n + 1 - i].cleanName,
                        value |-> result.variables[n + 1 - i].darkValue]]]

\* the three generated blocks, one line per variable each
generateShadcnCSS(result) ==
    [theme |-> [i \in DOMAIN result.variables |->
                   [property |-> <<"-","-","c","o","l","o","r","-">>
                                     \o result.variables[i].cleanName,
                    value |-> result.variables[i].cleanName]],
     root  |-> [i \in DOMAIN result.variables |->
                   [property |-> result.variables[i].cleanName,
                    value |-> result.variables[i].lightValue]],
     dark  |-> [i \in DOMAIN result.variables |->
                   [property |-> result.variables[i].cleanName,
                    value |-> result.variables[i].darkValue]]]

\* main(), after processSemanticVariables returned result
mainComplete(st, result) ==
    [postMessage(st, ExportComplete(generateShadcnCSS(result),
                                    Len(result.variables),
                                    result.collectionName))
        EXCEPT !.pc = "done"]

\* the message text is posted as it is
errorTextRaw(error) == error

\* (error as Error).message || 'Unknown error occurred'
errorText(error) ==
    IF error.text = "" THEN Error("Unknown error occurred", <<>>) ELSE error

\* the error is not caught: nothing is posted
mainCatchSilent(st, error) == [st EXCEPT !.pc = "done"]

\* main(), the catch block
mainCatch(st, error) ==
    [postMessage(st, ErrorMessage(errorText(error))) EXCEPT !.pc = "done"]

----------------------------------------------------------------------------
(* resolveVariableValue and the loop of processSemanticVariables *)

\* the name is not compared: the first mode is found
findModeAnyName(modes, name) == IF modes = <<>> THEN Null ELSE modes[1]

\* modes.find(m => m.name.toLowerCase() === name): the first such mode
findModeByName(modes, name) ==
    IF \E i \in DOMAIN modes : toLowerCase(modes[i].name) = name
    THEN modes[CHOOSE i \in DOMAIN modes :
                   /\ toLowerCase(modes[i].name) = name
                   /\ \A j \in 1..(i - 1) : toLowerCase(modes[j].name) # name]
    ELSE Null

\* modes.find(m => m.modeId === modeId): the first such mode
findModeById(modes, modeId) ==
    IF \E i \in DOMAIN modes : modes[i].modeId = modeId
    THEN modes[CHOOSE i \in DOMAIN modes :
                   /\ modes[i].modeId = modeId
                   /\ \A j \in 1..(i - 1) : modes[j].modeId # modeId]
    ELSE Null

\* the cycle guard left out
cycleGuardOff(variable, visited) == FALSE

\* a visited variable that holds a colour in some mode is let through
cycleGuardAliasesOnly(variable, visited) ==
    /\ variable.id \in visited
    /\ \A m \in DOMAIN variable.valuesByMode :
           ~isRgbObject(variable.valuesByMode[m])
               /\ ~isHexString(variable.valuesByMode[m])

\* visited.has(variable.id)
cycleGuard(variable, visited) == variable.id \in visited

\* variable.valuesByMode[modeId]
valueAt(variable, modeId) ==
    IF modeId \in DOMAIN variable.valuesByMode
    THEN variable.valuesByMode[modeId]
    ELSE Undefined

\* only the light value is tested
skipVariableLightOnly(lightValue, darkValue) == Falsy(lightValue)

\* if (!lightValue || !darkValue) continue
skipVariable(lightValue, darkValue) == Falsy(lightValue) \/ Falsy(darkValue)

\* variable.name.substring(5), then slashes to hyphens
cleanNameOf(name) == replaceSlashes(substring(name, 5))

ProcessedVariable(variable, lightValue, darkValue) ==
    [name |-> variable.name, cleanName |-> cleanNameOf(variable.name),
     lightValue |-> lightValue, darkValue |-> darkValue]

\* a dropped candidate fails the run
finishStrict(st) ==
    IF Len(st.processedVariables) < Len(st.baseVariables)
    THEN mainCatch(st, Error("No valid base/ color variables found", <<>>))
    ELSE mainComplete(st, [variables |-> st.processedVariables,
                           collectionName |-> st.modeCollection.name])

\* the empty result is exported
finishEmpty(st) ==
    mainComplete(st, [variables |-> st.processedVariables,
                      collectionName |-> st.modeCollection.name])

\* the end of processSemanticVariables, and of main()
finish(st) ==
    IF Len(st.processedVariables) = 0
    THEN mainCatch(st, Error("No valid base/ color variables found", <<>>))
    ELSE mainComplete(st, [variables |-> st.processedVariables,
                           collectionName |-> st.modeCollection.name])

\* no correlation by name: the caller's mode id is passed on
correlatedModeIdRaw(currentModeCollection, modeId, lightMode, darkMode) == modeId

\* a mode that is named neither light nor dark counts as light
correlatedModeIdDefaultLight(currentModeCollection, modeId, lightMode, darkMode) ==
    LET currentMode == IF currentModeCollection = Null THEN Null
                       ELSE findModeById(currentModeCollection.modes, modeId)
    IN  IF currentMode # Null /\ toLowerCase(currentMode.name) = Str_dark
        THEN darkMode.modeId
        ELSE lightMode.modeId

\* the mode of the aliased collection when it has both light and dark
correlatedModeId(currentModeCollection, modeId, lightMode, darkMode) ==
    LET currentMode == IF currentModeCollection = Null THEN Null
                       ELSE findModeById(currentModeCollection.modes, modeId)
    IN  IF currentMode # Null /\ toLowerCase(currentMode.name) = Str_light
        THEN lightMode.modeId
        ELSE IF currentMode # Null /\ toLowerCase(currentMode.name) = Str_dark
        THEN darkMode.modeId
        ELSE modeId

\* no single-mode branch: the caller's mode id is passed on
uncorrelatedModeIdRaw(aliasedCollection, modeId) == modeId

\* the mode of the aliased collection when it lacks light or dark
uncorrelatedModeId(aliasedCollection, modeId) ==
    IF Len(aliasedCollection.modes) = 1
    THEN aliasedCollection.modes[1].modeId
    ELSE modeId

RECURSIVE resolveVariableValue(_, _, _, _)
RECURSIVE returnValue(_, _, _, _)
RECURSIVE nextVariable(_, _)

\* one visited set is kept for all the calls of a run: it holds the ids on
\* the chains of the calls that returned before
topLevelCallSharedVisited(st, variable, modeId) ==
    resolveVariableValue(st, variable, modeId,
        UNION {{st.resolved[k].chain[i].id : i \in DOMAIN st.resolved[k].chain} :
                  k \in DOMAIN st.resolved})

\* resolveVariableValue(variable, modeId): visited = new Set()
topLevelCall(st, variable, modeId) ==
    resolveVariableValue(st, variable, modeId, {})

\* visited.add left out
visitedAddNothing(visited, variable) == visited

\* visited.add(variable.id)
visitedAdd(visited, variable) == visited \cup {variable.id}

\* resolveVariableValue(variable, modeId, visited) called by run st: its
\* body up to the first await, or to its return
resolveVariableValue(st0, variable, modeId, visited) ==
    LET st    == [st0 EXCEPT !.chain =
                     Append(@, [id |-> variable.id, modeId |-> modeId])]
        value == valueAt(variable, modeId)
    IN  IF cycleGuard(variable, visited)
        THEN returnValue(st, Null, "cycle", <<>>)
        ELSE IF Falsy(value)
        THEN returnValue(st, Null, "missing", <<>>)
        ELSE IF isRgbObject(value)
        THEN returnValue(st, hexToOklch(figmaRgbToHex(value)), "rgb",
                         figmaRgbToHex(value))
        ELSE IF isHexString(value)
        THEN returnValue(st, hexToOklch(value.chars), "hex", value.chars)
        ELSE IF isAlias(value)
        THEN await([st EXCEPT !.variable = variable, !.modeId = modeId,
                              !.visited = visitedAdd(visited, variable)],
                   "getVariableById", value.id)
        ELSE returnValue(st, Null, "shape", <<>>)

\* the innermost resolveVariableValue returns result, every caller on the
\* chain returns it in turn, and the loop of processSemanticVariables goes on
returnValue(st0, result, reason, hex) ==
    LET variable == st0.baseVariables[st0.index]
        st == [st0 EXCEPT
                 !.resolved = Append(@, [id |-> variable.id, phase |-> st0.phase,
                                         result |-> result, reason |-> reason,
                                         hex |-> hex, chain |-> st0.chain]),
                 !.chain = <<>>,
                 !.variable = Null, !.modeId = "", !.visited = {},
                 !.aliasedVariable = Null, !.aliasedCollection = Null,
                 !.aliasLightMode = Null, !.aliasDarkMode = Null]
    IN  IF st0.phase = "light"
        THEN topLevelCall(
                 [st EXCEPT !.phase = "dark", !.lightValue = result],
                 variable, st.darkMode.modeId)
        ELSE IF skipVariable(st.lightValue, result)
        THEN nextVariable(st, st.index + 1)
        ELSE nextVariable(
                 [st EXCEPT !.processedVariables =
                     Append(@, ProcessedVariable(variable, st.lightValue, result))],
                 st.index + 1)

\* for (const variable of baseVariables)
nextVariable(st, i) ==
    IF i <= Len(st.baseVariables)
    THEN topLevelCall(
             [st EXCEPT !.index = i, !.phase = "light", !.lightValue = Null],
             st.baseVariables[i], st.lightMode.modeId)
    ELSE finish(st)

\* the name filter left out
isModeCollectionAny(collection) == TRUE

\* collection.name.toLowerCase().includes('mode')
isModeCollection(collection) == includes(toLowerCase(collection.name), Str_mode)

\* the collection filter left out
isBaseVariablePrefixOnly(v, modeCollection) == startsWith(v.name, Str_base)

\* v.variableCollectionId === modeCollection.id, then v.name.startsWith('base/')
isBaseVariable(v, modeCollection) ==
    v.variableCollectionId = modeCollection.id /\ startsWith(v.name, Str_base)

\* the last matching collection is taken
lastModeCollection(modeCollections) == modeCollections[Len(modeCollections)]

\* return modeCollections[0]
firstModeCollection(modeCollections) == modeCollections[1]

\* findModeCollection after its await, then processSemanticVariables up to
\* its own await
afterCollections(st, colls) ==
    LET modeCollections == SelectSeq(colls, isModeCollection)
    IN  IF Len(modeCollections) = 0
        THEN mainCatch(st, Error("No collection found with Mode in the name", <<>>))
        ELSE LET modeCollection == firstModeCollection(modeCollections)
                 lightMode == findModeByName(modeCollection.modes, Str_light)
                 darkMode  == findModeByName(modeCollection.modes, Str_dark)
             IN  IF lightMode = Null \/ darkMode = Null
                 THEN mainCatch(st,
                          Error("Collection must have both Light and Dark modes",
                                [i \in DOMAIN modeCollection.modes |->
                                    modeCollection.modes[i].name]))
                 ELSE await([st EXCEPT !.modeCollection = modeCollection,
                                       !.lightMode = lightMode,
                                       !.darkMode = darkMode],
                            "getLocalVariables", "COLOR")

\* processSemanticVariables after getLocalVariablesAsync: the two filters,
\* then the loop
afterVariables(st, allVariables) ==
    LET isBase(v) == isBaseVariable(v, st.modeCollection)
    IN  nextVariable([st EXCEPT !.baseVariables = SelectSeq(allVariables, isBase)], 1)

\* resolveVariableValue after getVariableByIdAsync
afterVariableById(st, aliasedVariable) ==
    IF aliasedVariable = Null
    THEN returnValue(st, Null, "dangling", <<>>)
    ELSE await([st EXCEPT !.aliasedVariable = aliasedVariable],
               "getAliasedCollection", aliasedVariable.variableCollectionId)

\* resolveVariableValue after the aliased collection was fetched
afterAliasedCollection(st, aliasedCollection) ==
    IF aliasedCollection = Null
    THEN returnValue(st, Null, "nocollection", <<>>)
    ELSE LET lightMode == findModeByName(aliasedCollection.modes, Str_light)
             darkMode  == findModeByName(aliasedCollection.modes, Str_dark)
         IN  IF lightMode # Null /\ darkMode # Null
             THEN await([st EXCEPT !.aliasedCollection = aliasedCollection,
                                   !.aliasLightMode = lightMode,
                                   !.aliasDarkMode = darkMode],
                        "getCurrentCollection", st.variable.variableCollectionId)
             ELSE resolveVariableValue(st, st.aliasedVariable,
                      uncorrelatedModeId(aliasedCollection, st.modeId),
                      st.visited)

\* resolveVariableValue after the current variable's collection was fetched
afterCurrentCollection(st, currentModeCollection) ==
    resolveVariableValue(st, st.aliasedVariable,
        correlatedModeId(currentModeCollection, st.modeId,
                         st.aliasLightMode, st.aliasDarkMode),
        st.visited)

----------------------------------------------------------------------------
(* Actions *)

Init ==
    /\ collections \in LocalCollectionLists
    /\ variables \in LocalVariableLists
    /\ runs = <<>>
    /\ closed = FALSE

\* figma.ui.onmessage, msg.type === 'start-export'
StartExport ==
    /\ ~closed
    /\ Len(runs) < MaxRuns
    /\ runs' = Append(runs, newRun)
    /\ UNCHANGED <<collections, variables, closed>>

\* figma.ui.onmessage, msg.type === 'close'
ClosePlugin ==
    /\ ~closed
    /\ closed' = TRUE
    /\ UNCHANGED <<collections, variables, runs>>

Suspended(r, query) == ~closed /\ r \in DOMAIN runs /\ runs[r].pc = query

Resume(r, st) ==
    /\ runs' = [runs EXCEPT ![r] = st]
    /\ UNCHANGED <<collections, variables, closed>>

\* the host answers getLocalVariableCollectionsAsync()
LocalCollectionsReply(r) ==
    /\ Suspended(r, "getLocalVariableCollections")
    /\ Resume(r, afterCollections(runs[r], collections))

\* the host answers getLocalVariablesAsync('COLOR')
LocalVariablesReply(r) ==
    /\ Suspended(r, "getLocalVariables")
    /\ Resume(r, afterVariables(runs[r], variables))

\* the host answers getVariableByIdAsync(value.id)
VariableByIdReply(r) ==
    /\ Suspended(r, "getVariableById")
    /\ Resume(r, afterVariableById(runs[r],
           getVariableById(valueAt(runs[r].variable, runs[r].modeId).id)))

\* the host answers getVariableCollectionByIdAsync(aliasedVariable.variableCollectionId)
AliasedCollectionReply(r) ==
    /\ Suspended(r, "getAliasedCollection")
    /\ Resume(r, afterAliasedCollection(runs[r],
           getVariableCollectionById(runs[r].aliasedVariable.variableCollectionId)))

\* the host answers getVariableCollectionByIdAsync(variable.variableCollectionId)
CurrentCollectionReply(r) ==
    /\ Suspended(r, "getCurrentCollection")
    /\ Resume(r, afterCurrentCollection(runs[r],
           getVariableCollectionById(runs[r].variable.variableCollectionId)))

\* the host rejects the query the run is suspended on
HostReject(r) ==
    /\ ~closed
    /\ r \in DOMAIN runs
    /\ runs[r].pc \in Awaiting
    /\ \E e \in HostErrors : Resume(r, mainCatch(runs[r], Error(e, <<>>)))

Next ==
    \/ StartExport
    \/ ClosePlugin
    \/ \E r \in 1..MaxRuns : LocalCollectionsReply(r)
    \/ \E r \in 1..MaxRuns : LocalVariablesReply(r)
    \/ \E r \in 1..MaxRuns : VariableByIdReply(r)
    \/ \E r \in 1..MaxRuns : AliasedCollectionReply(r)
    \/ \E r \in 1..MaxRuns : CurrentCollectionReply(r)
    \/ \E r \in 1..MaxRuns : HostReject(r)

Spec == Init /\ [][Next]_vars

\* the host rejects the query the run is suspended on with an error that
\* has no message text
HostRejectNoMessage(r) ==
    /\ ~closed
    /\ r \in DOMAIN runs
    /\ runs[r].pc \in Awaiting
    /\ Resume(r, mainCatch(runs[r], Error("", <<>>)))

NextReject ==
    \/ Next
    \/ \E r \in 1..MaxRuns : HostRejectNoMessage(r)

\* the runs under a host whose rejections may carry no message text
RejectSpec == Init /\ [][NextReject]_vars

\* the host settles the promise run r awaits: it answers or rejects
HostSettles(r) ==
    \/ LocalCollectionsReply(r)
    \/ LocalVariablesReply(r)
    \/ VariableByIdReply(r)
    \/ AliasedCollectionReply(r)
    \/ CurrentCollectionReply(r)
    \/ HostReject(r)

\* run r awaits a promise of the host: HostSettles(r) is enabled
Waiting(r) == ~closed /\ r \in DOMAIN runs /\ runs[r].pc \in Awaiting

\* the files whose variables alias one another: a cycle of two, a self-alias
\* among dangling and missing values, a loop through another collection,
\* and a plain alias
InitLive ==
    /\ collections = <<cMode, cTheme, cConst, cBrand>>
    /\ variables \in {<<vA, vB>>,
                       <<vMuted, vBorder, vSelf, vInput, vBackground>>,
                       <<vLoop>>,
                       <<vRing, vBackground>>}
    /\ runs = <<>>
    /\ closed = FALSE

\* a step in which the host settles the promise of run r: HostSettles(r),
\* which implies the two conjuncts before it
Settled(r) == Waiting(r) /\ runs'[r] # runs[r] /\ HostSettles(r)

\* the runs under a host that settles every promise: weak fairness of
\* HostSettles(r), WF_vars(HostSettles(r)), with ENABLED written out as
\* Waiting(r)
LiveSpec ==
    /\ InitLive /\ [][Next]_vars
    /\ \A r \in 1..MaxRuns :
           []<>(~Waiting(r)) \/ []<><<Settled(r)>>_vars

----------------------------------------------------------------------------
(* Properties *)

\* the host answers no more queries of run r: main() returned, or the
\* plugin was closed
Ended(r) == runs[r].pc = "done" \/ closed

\* the chains of resolver invocations of run st: one per top-level call that
\* returned, and the one of the call in progress
Chains(st) == {st.resolved[k].chain : k \in DOMAIN st.resolved} \cup {st.chain}

\* a chain came back to a variable it had already visited
HasRevisit(chain) ==
    \E i, j \in DOMAIN chain : i < j /\ chain[i].id = chain[j].id

\* C1: a chain that comes back to a variable already on it returns null, and
\* the revisit is its last invocation: no invocation follows it, and a
\* resolution still in progress has visited no variable twice
C1_CycleReturnsNull ==
    \A r \in DOMAIN runs :
        /\ runs[r].pc \in Awaiting => ~HasRevisit(runs[r].chain)
        /\ \A k \in DOMAIN runs[r].resolved :
               LET t == runs[r].resolved[k]
               IN  HasRevisit(t.chain) =>
                       /\ t.result = Null
                       /\ \A i, j \in DOMAIN t.chain :
                              (i < j /\ t.chain[i].id = t.chain[j].id)
                                  => j = Len(t.chain)

\* C1 witness: both variables of the two-node cycle base/a <-> base/b were
\* resolved at top level in the light mode, each chain ending on the revisit
C1_Witness ==
    \E r \in DOMAIN runs :
        \E k1, k2 \in DOMAIN runs[r].resolved :
            /\ runs[r].resolved[k1].id = "v6"
            /\ runs[r].resolved[k2].id = "v7"
            /\ HasRevisit(runs[r].resolved[k1].chain)
            /\ HasRevisit(runs[r].resolved[k2].chain)
            /\ Len(runs[r].resolved[k1].chain) = 3
            /\ runs[r].resolved[k1].result = Null
            /\ runs[r].resolved[k2].result = Null

\* the lower-cased name that the collection with this id gives the mode with
\* this id, <<>> when there is no such collection or mode
ModeNameIn(collectionId, modeId) ==
    LET c == getVariableCollectionById(collectionId)
    IN  IF c # Null /\ \E i \in DOMAIN c.modes : c.modes[i].modeId = modeId
        THEN toLowerCase(
                 c.modes[CHOOSE i \in DOMAIN c.modes : c.modes[i].modeId = modeId].name)
        ELSE <<>>

DefinesLightAndDark(collectionId) ==
    LET c == getVariableCollectionById(collectionId)
    IN  /\ c # Null
        /\ \E i \in DOMAIN c.modes : toLowerCase(c.modes[i].name) = Str_light
        /\ \E i \in DOMAIN c.modes : toLowerCase(c.modes[i].name) = Str_dark

CollectionIdOf(call) == getVariableById(call.id).variableCollectionId

\* C2: when a variable evaluated at the mode its collection names light
\* (dark) aliases a variable whose collection defines light and dark, the
\* aliased variable is evaluated at the mode its own collection names light
\* (dark); so along a chain whose collections all define light and dark,
\* every variable is evaluated at the mode of the starting mode's name
C2_CorrelatedByName ==
    \A r \in DOMAIN runs : \A chain \in Chains(runs[r]) :
        /\ \A i \in 1..(Len(chain) - 1) :
               LET name == ModeNameIn(CollectionIdOf(chain[i]), chain[i].modeId)
               IN  (/\ name \in {Str_light, Str_dark}
                    /\ DefinesLightAndDark(CollectionIdOf(chain[i + 1])))
                   => ModeNameIn(CollectionIdOf(chain[i + 1]),
                                 chain[i + 1].modeId) = name
        /\ (\A i \in DOMAIN chain : DefinesLightAndDark(CollectionIdOf(chain[i])))
               => \A i \in DOMAIN chain :
                      ModeNameIn(CollectionIdOf(chain[i]), chain[i].modeId)
                          = ModeNameIn(CollectionIdOf(chain[1]), chain[1].modeId)

\* C2 witness: base/deep (Mode) -> mid (Modes v2) -> ink (Theme) was resolved
\* at light through the three light mode ids m1, x1, t2, and at dark through
\* the dark mode ids m2, x2
C2_Witness ==
    \E r \in DOMAIN runs :
        \E k1, k2 \in DOMAIN runs[r].resolved :
            /\ runs[r].resolved[k1].chain =
                   <<[id |-> "v22", modeId |-> "m1"],
                     [id |-> "v23", modeId |-> "x1"],
                     [id |-> "v3", modeId |-> "t2"]>>
            /\ runs[r].resolved[k2].chain =
                   <<[id |-> "v22", modeId |-> "m2"],
                     [id |-> "v23", modeId |-> "x2"]>>

HasSingleMode(collectionId) ==
    LET c == getVariableCollectionById(collectionId)
    IN  c # Null /\ Len(c.modes) = 1

\* the value of the candidate of top-level call t is, in both modes of the
\* chosen collection, an alias of one variable of a single-mode collection
AliasesSingleMode(st, t) ==
    LET V  == getVariableById(t.id)
        lv == valueAt(V, st.lightMode.modeId)
        dv == valueAt(V, st.darkMode.modeId)
    IN  /\ lv.kind = "alias" /\ dv.kind = "alias" /\ lv.id = dv.id
        /\ getVariableById(lv.id) # Null
        /\ HasSingleMode(getVariableById(lv.id).variableCollectionId)

\* C3: a variable of a single-mode collection is evaluated at that one mode
\* whatever mode the caller was at, and a candidate aliasing it in both
\* modes resolves to the same result at light and at dark
C3_SingleModeIgnoresCaller ==
    \A r \in DOMAIN runs :
        /\ \A chain \in Chains(runs[r]) : \A i \in 2..Len(chain) :
               HasSingleMode(CollectionIdOf(chain[i]))
                   => chain[i].modeId =
                          getVariableCollectionById(CollectionIdOf(chain[i])).modes[1].modeId
        /\ \A k \in DOMAIN runs[r].resolved :
               (/\ runs[r].resolved[k].phase = "dark"
                /\ AliasesSingleMode(runs[r], runs[r].resolved[k]))
               => runs[r].resolved[k].result = runs[r].resolved[k - 1].result

\* C3 witness: base/ring, whose two values alias white of the single-mode
\* collection Constants, resolved at light and at dark to the same colour
C3_Witness ==
    \E r \in DOMAIN runs : \E k \in DOMAIN runs[r].resolved :
        /\ runs[r].resolved[k].id = "v4"
        /\ runs[r].resolved[k].phase = "dark"
        /\ AliasesSingleMode(runs[r], runs[r].resolved[k])
        /\ runs[r].resolved[k].chain[2] = [id |-> "v5", modeId |-> "m2"]
        /\ runs[r].resolved[k - 1].chain[1].modeId = "m1"
        /\ runs[r].resolved[k - 1].chain[2] = [id |-> "v5", modeId |-> "m2"]
        /\ runs[r].resolved[k].result.kind = "oklch"
        /\ runs[r].resolved[k].result = runs[r].resolved[k - 1].result

\* the candidates of run st whose two top-level calls returned, in order,
\* with the two results
ResolvedPairs(st) ==
    [n \in 1..(Len(st.resolved) \div 2) |->
        [name |-> getVariableById(st.resolved[2 * n].id).name,
         lightValue |-> st.resolved[2 * n - 1].result,
         darkValue |-> st.resolved[2 * n].result]]

\* C4: every entry of processedVariables, at every point of a run, holds the
\* two non-null strings that resolveVariableValue returned for that candidate
\* at light and at dark; a candidate with a null result is not among them;
\* and the values of an export-complete message are these strings
C4_OnlyFullyResolvedEntries ==
    \A r \in DOMAIN runs :
        LET st == runs[r]
            pairs == ResolvedPairs(st)
        IN  /\ \A i \in DOMAIN st.processedVariables :
                   LET p == st.processedVariables[i]
                   IN  /\ p.lightValue.kind = "oklch"
                       /\ p.darkValue.kind = "oklch"
                       /\ \E n \in DOMAIN pairs :
                              /\ pairs[n].name = p.name
                              /\ pairs[n].lightValue = p.lightValue
                              /\ pairs[n].darkValue = p.darkValue
            /\ \A n \in DOMAIN pairs :
                   (pairs[n].lightValue = Null \/ pairs[n].darkValue = Null)
                       => \A i \in DOMAIN st.processedVariables :
                              st.processedVariables[i].name # pairs[n].name
            /\ \A m \in DOMAIN st.posted :
                   st.posted[m].type = "export-complete"
                       => /\ st.posted[m].variableCount = Len(st.processedVariables)
                          /\ \A i \in DOMAIN st.processedVariables :
                              /\ st.posted[m].css.root[i].value
                                     = st.processedVariables[i].lightValue
                              /\ st.posted[m].css.dark[i].value
                                     = st.processedVariables[i].darkValue

\* C4 witness: a run exported base/background alone, after base/muted
\* (no dark value) and base/border (dangling light alias) resolved to null
\* in one mode and to a colour in the other
C4_Witness ==
    \E r \in DOMAIN runs :
        /\ runs[r].pc = "done"
        /\ Len(runs[r].resolved) = 10
        /\ runs[r].resolved[1].result.kind = "oklch"
        /\ runs[r].resolved[2].result = Null
        /\ runs[r].resolved[3].result = Null
        /\ runs[r].resolved[4].result.kind = "oklch"
        /\ Len(runs[r].processedVariables) = 1
        /\ runs[r].processedVariables[1].name = vBackground.name
        /\ runs[r].posted[1].type = "export-complete"

NoModeCollection ==
    \A i \in DOMAIN collections :
        ~includes(toLowerCase(collections[i].name), Str_mode)

\* C6: when no enumerated collection's name contains "mode", a run asks the
\* host for nothing but the collections, resolves nothing, and ends with an
\* error message
C6_NoModeCollectionFailsFirst ==
    NoModeCollection =>
        \A r \in DOMAIN runs :
            /\ \A q \in DOMAIN runs[r].queries :
                   runs[r].queries[q][1] = "getLocalVariableCollections"
            /\ runs[r].resolved = <<>> /\ runs[r].chain = <<>>
            /\ runs[r].pc = "done"
                   => /\ Len(runs[r].posted) = 1
                      /\ runs[r].posted[1].type = "error"

\* C6 witness: with collections Theme and Constants only, and an exportable
\* base/background among the variables, a run ended with the error that no
\* collection was found
C6_Witness ==
    /\ NoModeCollection
    /\ collections = <<cTheme, cConst>>
    /\ variables = <<vBackground>>
    /\ \E r \in DOMAIN runs :
           /\ runs[r].pc = "done"
           /\ runs[r].queries = <<<<"getLocalVariableCollections", "">>>>
           /\ runs[r].posted[1].type = "error"
           /\ runs[r].posted[1].message.text
                  = "No collection found with Mode in the name"

\* the variable's name starts with "base/" and it belongs to the collection
\* run st chose
PassesFilter(v, st) ==
    /\ Len(v.name) >= 5 /\ SubSeq(v.name, 1, 5) = <<"b","a","s","e","/">>
    /\ v.variableCollectionId = st.modeCollection.id

\* the candidates of run st all pass the filter, and what it exports are
\* candidates
ExportsOnlyCandidates(st) ==
    /\ \A i \in DOMAIN st.baseVariables : PassesFilter(st.baseVariables[i], st)
    /\ \A i \in DOMAIN st.processedVariables :
           \E j \in DOMAIN st.baseVariables :
               st.baseVariables[j].name = st.processedVariables[i].name

\* C7 as claimed: what is exported passes the filter, and resolveVariableValue
\* is never invoked on a variable that fails it
C7_FailingVariableNeverResolved ==
    \A r \in DOMAIN runs :
        runs[r].modeCollection # Null =>
            /\ ExportsOnlyCandidates(runs[r])
            /\ \A chain \in Chains(runs[r]) : \A i \in DOMAIN chain :
                   PassesFilter(getVariableById(chain[i].id), runs[r])

\* C7 amended: what is exported passes the filter, and no top-level call of
\* resolveVariableValue is made on a variable that fails it (the resolver
\* invokes itself on such a variable only as the target of an alias)
C7_FailingVariableNeverCandidate ==
    \A r \in DOMAIN runs :
        runs[r].modeCollection # Null =>
            /\ ExportsOnlyCandidates(runs[r])
            /\ \A chain \in Chains(runs[r]) :
                   chain # <<>> => PassesFilter(getVariableById(chain[1].id), runs[r])
            /\ \A i \in DOMAIN variables :
                   ~PassesFilter(variables[i], runs[r])
                       => \A k \in DOMAIN runs[r].resolved :
                              runs[r].resolved[k].id # variables[i].id

\* C7 witness: brand/plain (chosen collection, no prefix) and base/theme
\* (prefix, other collection) both hold terminal colours in both modes; the
\* run exported base/background alone and made top-level calls on it alone
C7_Witness ==
    /\ variables = <<vPlain, vThemeBase, vBackground>>
    /\ \E r \in DOMAIN runs :
           /\ runs[r].pc = "done"
           /\ runs[r].modeCollection = cMode
           /\ Len(runs[r].posted) = 1
           /\ runs[r].posted[1].type = "export-complete"
           /\ runs[r].posted[1].variableCount = 1
           /\ runs[r].processedVariables[1].name = vBackground.name
           /\ \A k \in DOMAIN runs[r].resolved : runs[r].resolved[k].id = "v1"

\* the candidates of run st both of whose top-level calls returned a string
Survivors(st) ==
    LET survives(p) == p.lightValue # Null /\ p.darkValue # Null
    IN  SelectSeq(ResolvedPairs(st), survives)

HostErrorTexts == {"Host query failed", "Unknown error occurred"}

\* C8: a null result ends no run. A run that stopped before the last
\* candidate's dark value was resolved was refused a host query; a run that
\* resolved them all exports, in order, every candidate with two non-null
\* results, and ends with export-complete when there is one, and with the
\* no-data error only when there is none
C8_FailedCandidateOnlyDropped ==
    \A r \in DOMAIN runs :
        LET st == runs[r]
            complete == Len(st.resolved) = 2 * Len(st.baseVariables)
        IN  (st.pc = "done" /\ st.baseVariables # <<>>) =>
                /\ ~complete =>
                       /\ st.posted[1].type = "error"
                       /\ st.posted[1].message.text \in HostErrorTexts
                /\ (complete /\ Survivors(st) # <<>>) =>
                       /\ st.posted[1].type = "export-complete"
                       /\ st.posted[1].variableCount = Len(Survivors(st))
                       /\ \A i \in DOMAIN Survivors(st) :
                              /\ st.processedVariables[i].name = Survivors(st)[i].name
                              /\ st.posted[1].css.root[i].value
                                     = Survivors(st)[i].lightValue
                              /\ st.posted[1].css.dark[i].value
                                     = Survivors(st)[i].darkValue
                /\ (complete /\ Survivors(st) = <<>>) =>
                       /\ st.posted[1].type = "error"
                       /\ st.posted[1].message.text
                              = "No valid base/ color variables found"

\* C8 witness: base/muted (no dark value), base/border (dangling alias),
\* base/self (cycle) and base/input (a non-hex string, a number) were dropped
\* and the run ended with export-complete for base/background
C8_Witness ==
    \E r \in DOMAIN runs :
        /\ runs[r].pc = "done"
        /\ [k \in DOMAIN runs[r].resolved |-> runs[r].resolved[k].reason]
               = <<"rgb", "missing", "dangling", "hex", "cycle", "hex",
                   "shape", "shape", "hex", "hex">>
        /\ runs[r].posted[1].type = "export-complete"
        /\ runs[r].posted[1].variableCount = 1
        /\ runs[r].posted[1].css.root[1].property
               = <<"b","a","c","k","g","r","o","u","n","d">>

\* C9 as claimed: every string the resolver hands to hexToOklch has exactly
\* 3 or exactly 6 hex digits after the "#", and what comes back is a
\* well-formed oklch(L C H) string of three numbers
C9_ConverterGetsThreeOrSixDigits ==
    \A r \in DOMAIN runs : \A k \in DOMAIN runs[r].resolved :
        LET t == runs[r].resolved[k]
        IN  t.hex # <<>> =>
                /\ Len(t.hex) - 1 \in {3, 6}
                /\ t.result.kind = "oklch"
                /\ ~t.result.L.nan /\ ~t.result.C.nan /\ ~t.result.H.nan

\* C10 as claimed: the clean name of every exported variable has only
\* letters, digits and hyphens
C10_CleanNameCharset ==
    \A r \in DOMAIN runs : \A i \in DOMAIN runs[r].processedVariables :
        Range(runs[r].processedVariables[i].cleanName)
            \subseteq Range(UpperChars) \cup Range(LowerChars)
                          \cup Range(DigitChars) \cup {"-"}

\* the result of the top-level call of run st on the variable with this id
\* in this phase, Null when there was none
ResultOf(st, id, phase) ==
    IF \E k \in DOMAIN st.resolved :
           st.resolved[k].id = id /\ st.resolved[k].phase = phase
    THEN st.resolved[CHOOSE k \in DOMAIN st.resolved :
             st.resolved[k].id = id /\ st.resolved[k].phase = phase].result
    ELSE Null

\* the variables the host enumerates, in its order, that run st accepted:
\* they pass the filter and resolved to a string in both modes
AcceptedInHostOrder(st) ==
    LET accepted(v) == /\ PassesFilter(v, st)
                       /\ ResultOf(st, v.id, "light") # Null
                       /\ ResultOf(st, v.id, "dark") # Null
    IN  SelectSeq(variables, accepted)

\* C11: the three blocks of an exported stylesheet have one line each per
\* accepted variable, the i-th line of each block is about the i-th accepted
\* variable in the host's enumeration order, and the :root line carries the
\* light result and the .dark line the dark result of that variable
C11_BlocksInHostOrder ==
    \A r \in DOMAIN runs : \A m \in DOMAIN runs[r].posted :
        runs[r].posted[m].type = "export-complete" =>
            LET css == runs[r].posted[m].css
                acc == AcceptedInHostOrder(runs[r])
            IN  /\ Len(css.theme) = Len(acc)
                /\ Len(css.root) = Len(acc)
                /\ Len(css.dark) = Len(acc)
                /\ \A i \in DOMAIN acc :
                       LET name == cleanNameOf(acc[i].name)
                       IN  /\ css.theme[i].property
                                  = <<"-","-","c","o","l","o","r","-">> \o name
                           /\ css.theme[i].value = name
                           /\ css.root[i].property = name
                           /\ css.root[i].value = ResultOf(runs[r], acc[i].id, "light")
                           /\ css.dark[i].property = name
                           /\ css.dark[i].value = ResultOf(runs[r], acc[i].id, "dark")

\* C11 witness: the host enumerates base/ring before base/background; the
\* exported blocks list ring first and background second (not alphabetical),
\* with different light and dark values for background
C11_Witness ==
    /\ variables = <<vRing, vBackground>>
    /\ \E r \in DOMAIN runs :
           /\ runs[r].pc = "done"
           /\ runs[r].posted[1].type = "export-complete"
           /\ [i \in 1..2 |-> runs[r].posted[1].css.root[i].property]
                  = <<<<"r","i","n","g">>,
                      <<"b","a","c","k","g","r","o","u","n","d">>>>
           /\ [i \in 1..2 |-> runs[r].posted[1].css.dark[i].property]
                  = <<<<"r","i","n","g">>,
                      <<"b","a","c","k","g","r","o","u","n","d">>>>
           /\ runs[r].posted[1].css.root[2].value
                  # runs[r].posted[1].css.dark[2].value

\* C12: a run that ends with no candidate resolved in both modes (none passed
\* the filter, or each was dropped) sends an error and no export-complete;
\* an export-complete message counts at least one variable, and counts as
\* many as each block of the stylesheet has lines
C12_NoEmptyExport ==
    \A r \in DOMAIN runs :
        LET st == runs[r]
        IN  /\ (st.pc = "done" /\ Survivors(st) = <<>>) =>
                   /\ Len(st.posted) = 1
                   /\ st.posted[1].type = "error"
                   /\ (Len(st.resolved) = 2 * Len(st.baseVariables)
                       /\ st.modeCollection # Null)
                          => st.posted[1].message.text
                                 \in {"No valid base/ color variables found"}
                                         \cup HostErrorTexts
            /\ \A m \in DOMAIN st.posted :
                   st.posted[m].type = "export-complete" =>
                       /\ st.posted[m].variableCount >= 1
                       /\ st.posted[m].variableCount = Len(st.posted[m].css.theme)
                       /\ st.posted[m].variableCount = Len(st.posted[m].css.root)
                       /\ st.posted[m].variableCount = Len(st.posted[m].css.dark)
                       /\ st.posted[m].variableCount = Len(Survivors(st))

\* C12 witness: the only candidate, base/popover, resolved to null in both
\* modes and the run ended with the no-data error
C12_Witness ==
    /\ variables = <<vPopover>>
    /\ \E r \in DOMAIN runs :
           /\ runs[r].pc = "done"
           /\ Len(runs[r].baseVariables) = 1
           /\ Len(runs[r].resolved) = 2
           /\ Survivors(runs[r]) = <<>>
           /\ runs[r].posted
                  = <<ErrorMessage(Error("No valid base/ color variables found", <<>>))>>

\* the collections the host enumerates whose name contains "mode", in order
ModeCollections ==
    LET named(c) == includes(toLowerCase(c.name), Str_mode)
    IN  SelectSeq(collections, named)

\* the collection has no mode named light or none named dark
LacksLightOrDark(c) ==
    \/ \A i \in DOMAIN c.modes : toLowerCase(c.modes[i].name) # Str_light
    \/ \A i \in DOMAIN c.modes : toLowerCase(c.modes[i].name) # Str_dark

\* C13: when the chosen collection lacks a light or a dark mode, a run asks
\* the host for the collections only, resolves nothing, and, unless that one
\* query was rejected, ends with the error that lists the names of the modes
\* the collection has
C13_MissingModeFailsWithNames ==
    (ModeCollections # <<>> /\ LacksLightOrDark(ModeCollections[1])) =>
        \A r \in DOMAIN runs :
            /\ \A q \in DOMAIN runs[r].queries :
                   runs[r].queries[q][1] = "getLocalVariableCollections"
            /\ runs[r].resolved = <<>> /\ runs[r].chain = <<>>
            /\ runs[r].baseVariables = <<>>
            /\ runs[r].pc = "done" =>
                   /\ Len(runs[r].posted) = 1
                   /\ runs[r].posted[1].type = "error"
                   /\ \/ runs[r].posted[1].message.text \in HostErrorTexts
                      \/ /\ runs[r].posted[1].message.text
                                = "Collection must have both Light and Dark modes"
                         /\ runs[r].posted[1].message.found
                                = [i \in DOMAIN ModeCollections[1].modes |->
                                      ModeCollections[1].modes[i].name]

\* C13 witness: the chosen collection "dark MODES" has the modes Dark and
\* Dim; with an exportable base/background in the file, the run ended with
\* the error listing Dark and Dim
C13_Witness ==
    /\ collections = <<cOld, cMode>>
    /\ variables = <<vBackground>>
    /\ \E r \in DOMAIN runs :
           /\ runs[r].pc = "done"
           /\ runs[r].queries = <<<<"getLocalVariableCollections", "">>>>
           /\ runs[r].posted[1].message.found
                  = <<<<"D","a","r","k">>, <<"D","i","m">>>>

\* C14: with several collections named "mode", a run works on the first one
\* of the enumeration and on no other: it is the collection it keeps, every
\* candidate belongs to it, an export names it, and a run whose first
\* matching collection lacks light or dark keeps no collection at all; no run
\* fails for the ambiguity
C14_FirstModeCollectionOnly ==
    Len(ModeCollections) >= 2 =>
        \A r \in DOMAIN runs :
            LET st == runs[r]
            IN  /\ st.modeCollection \in {Null, ModeCollections[1]}
                /\ LacksLightOrDark(ModeCollections[1]) => st.modeCollection = Null
                /\ \A i \in DOMAIN st.baseVariables :
                       st.baseVariables[i].variableCollectionId = ModeCollections[1].id
                /\ \A k \in DOMAIN st.resolved :
                       getVariableById(st.resolved[k].id).variableCollectionId
                           = ModeCollections[1].id
                /\ \A m \in DOMAIN st.posted :
                       /\ st.posted[m].type = "export-complete"
                              => st.posted[m].collectionName = ModeCollections[1].name
                       /\ st.posted[m].type = "error"
                              => st.posted[m].message.text
                                     \in {"Collection must have both Light and Dark modes",
                                          "No valid base/ color variables found"}
                                             \cup HostErrorTexts
                /\ (st.pc = "done" /\ ~LacksLightOrDark(ModeCollections[1])
                    /\ Survivors(st) # <<>>)
                       => st.posted[1].type = "export-complete"

\* C14 witness: "Modes v2" is enumerated before "Mode" and both hold a
\* base/background; the run exported the one of "Modes v2" under that name
C14_Witness ==
    /\ collections = <<cTheme, cMode2, cMode>>
    /\ variables = <<vBackground2, vBackground>>
    /\ \E r \in DOMAIN runs :
           /\ runs[r].pc = "done"
           /\ runs[r].posted[1].type = "export-complete"
           /\ runs[r].posted[1].collectionName = cMode2.name
           /\ runs[r].posted[1].variableCount = 1
           /\ \A k \in DOMAIN runs[r].resolved : runs[r].resolved[k].id = "v21"
           /\ Len(runs[r].resolved) = 2


\* what a rejection of the query run r is suspended on leaves of the run:
\* main() returned, one message was sent and it is an error, and the
\* resolver and the loop went no further (no call returned, no invocation, no
\* query and no exported entry was added)
StoppedByRejection(r) ==
    /\ runs'[r].pc = "done"
    /\ runs[r].posted = <<>>
    /\ Len(runs'[r].posted) = 1
    /\ runs'[r].posted[1].type = "error"
    /\ runs'[r].resolved = runs[r].resolved
    /\ runs'[r].chain = runs[r].chain
    /\ runs'[r].queries = runs[r].queries
    /\ runs'[r].processedVariables = runs[r].processedVariables

\* a run whose main() returned takes no further step
DoneRunsRest ==
    \A r \in DOMAIN runs : runs[r].pc = "done" => runs'[r] = runs[r]

\* C15 as claimed: whichever query is rejected, the run stops with one error
\* message whose text is the message text of the rejection
C15_ErrorTextIsRejectionText ==
    [][/\ DoneRunsRest
       /\ \A r \in 1..MaxRuns :
              /\ HostReject(r) =>
                     /\ StoppedByRejection(r)
                     /\ runs'[r].posted[1].message.text \in HostErrors
              /\ HostRejectNoMessage(r) =>
                     /\ StoppedByRejection(r)
                     /\ runs'[r].posted[1].message.text = ""]_vars

\* C15 amended: whichever query is rejected, the run stops with one error
\* message; its text is the message text of the rejection when that text is
\* not empty, and "Unknown error occurred" when it is
C15_RejectionStopsRun ==
    [][/\ DoneRunsRest
       /\ \A r \in 1..MaxRuns :
              /\ HostReject(r) =>
                     /\ StoppedByRejection(r)
                     /\ runs'[r].posted[1].message.text \in HostErrors
              /\ HostRejectNoMessage(r) =>
                     /\ StoppedByRejection(r)
                     /\ runs'[r].posted[1].message.text
                            = "Unknown error occurred"]_vars

\* C15 witness: the query for the current collection was rejected without a
\* message text at the second level of the recursion; the run ended with the
\* one error message "Unknown error occurred" and no call had returned
C15_Witness ==
    \E r \in DOMAIN runs :
        /\ runs[r].pc = "done"
        /\ Len(runs[r].chain) = 2
        /\ runs[r].queries[Len(runs[r].queries)][1] = "getCurrentCollection"
        /\ runs[r].resolved = <<>>
        /\ runs[r].posted = <<ErrorMessage(Error("Unknown error occurred", <<>>))>>


\* what rgbToOklch computes for this hex string, before any rounding
ComputedOklch(hexIn) ==
    LET h0  == removeHash(hexIn)
        hex == IF Len(h0) = 3 THEN doubleChars(h0) ELSE h0
    IN  rgbToOklch(parseInt16(slice(hex, 0, 2)),
                   parseInt16(slice(hex, 2, 4)),
                   parseInt16(slice(hex, 4, 6)))

\* C16 as claimed: every hex input whose computed chroma, before rounding,
\* is below 0.004 (4000 units of 10^-6) comes back as oklch(L 0 0)
C16_CollapseOnUnroundedChroma ==
    \A r \in DOMAIN runs : \A k \in DOMAIN runs[r].resolved :
        LET t == runs[r].resolved[k]
        IN  (t.hex # <<>> /\ LessThan(ComputedOklch(t.hex).C, Num(4000))) =>
                /\ t.result.C = Num(0)
                /\ t.result.H = Num(0)


\* C17: where an invocation follows another on a chain and the collection of
\* its variable (the aliased collection) has two or more modes but lacks
\* light or dark, or has both while the collection of the aliasing variable
\* is missing, or has no mode of the caller's mode id, or names it neither
\* light nor dark, the invocation is at the caller's mode id
C17_FallbackKeepsModeId ==
    \A r \in DOMAIN runs : \A chain \in Chains(runs[r]) :
        \A i \in 1..(Len(chain) - 1) :
            LET A    == getVariableCollectionById(CollectionIdOf(chain[i + 1]))
                name == ModeNameIn(CollectionIdOf(chain[i]), chain[i].modeId)
            IN  /\ A # Null
                /\ (Len(A.modes) >= 2 /\ ~DefinesLightAndDark(A.id))
                       => chain[i + 1].modeId = chain[i].modeId
                /\ (DefinesLightAndDark(A.id) /\ name \notin {Str_light, Str_dark})
                       => chain[i + 1].modeId = chain[i].modeId

\* C17 witness: base/via at light reached ink of Theme (light and dark)
\* through hop of Constants, whose mode m2 is named Default, and ink was
\* evaluated at m2, which Theme does not have; base/primary reached brand/a
\* of Brand (modes A and B) at m1 and at m2, the ids of Light and Dark
C17_Witness ==
    \E r \in DOMAIN runs :
        \E k1, k2, k3 \in DOMAIN runs[r].resolved :
            /\ runs[r].resolved[k1].chain =
                   <<[id |-> "v24", modeId |-> "m1"],
                     [id |-> "v25", modeId |-> "m2"],
                     [id |-> "v3", modeId |-> "m2"]>>
            /\ runs[r].resolved[k1].reason = "missing"
            /\ runs[r].resolved[k2].chain =
                   <<[id |-> "v15", modeId |-> "m1"],
                     [id |-> "v16", modeId |-> "m1"]>>
            /\ runs[r].resolved[k2].result.kind = "oklch"
            /\ runs[r].resolved[k3].chain =
                   <<[id |-> "v15", modeId |-> "m2"],
                     [id |-> "v16", modeId |-> "m2"]>>
            /\ runs[r].resolved[k3].reason = "missing"


\* the ids of the variables invoked on a chain
IdsOn(chain) == {chain[i].id : i \in DOMAIN chain}

\* the queries a run is suspended on inside resolveVariableValue
AwaitingInResolver ==
    {"getVariableById", "getAliasedCollection", "getCurrentCollection"}

\* C18: the visited set of a call in progress holds the ids invoked on its
\* own chain and nothing else; a top-level call starts on its candidate at
\* the mode of its phase and is never stopped by the guard at its first
\* invocation, so a cycle is reported only for an id invoked twice on the
\* same chain, also at dark for a variable the light call visited; and the
\* calls of any two runs, however interleaved, on the same variable and
\* phase return the same result along the same chain
C18_VisitedOwnedByOneChain ==
    \A r \in DOMAIN runs :
        LET st == runs[r]
        IN  /\ st.pc \in AwaitingInResolver =>
                   /\ st.visited = IdsOn(st.chain)
                   /\ st.chain[1].id = st.baseVariables[st.index].id
            /\ \A k \in DOMAIN st.resolved :
                   LET t == st.resolved[k]
                   IN  /\ t.chain[1] =
                              [id |-> t.id,
                               modeId |-> IF t.phase = "light"
                                          THEN st.lightMode.modeId
                                          ELSE st.darkMode.modeId]
                       /\ t.reason = "cycle" =>
                              /\ Len(t.chain) >= 2
                              /\ t.chain[Len(t.chain)].id
                                     \in IdsOn(SubSeq(t.chain, 1, Len(t.chain) - 1))
                       /\ \A r2 \in DOMAIN runs : \A k2 \in DOMAIN runs[r2].resolved :
                              LET t2 == runs[r2].resolved[k2]
                              IN  (t2.id = t.id /\ t2.phase = t.phase)
                                      => t2.result = t.result /\ t2.chain = t.chain

\* C18 witness: the first run is suspended in the dark call of
\* base/foreground with only that variable visited, after its light call
\* went through base/foreground and ink; the second run started later and
\* has finished, and its dark call went through the same two variables to a
\* colour
C18_Witness ==
    /\ Len(runs) = 2
    /\ runs[1].pc = "getAliasedCollection"
    /\ runs[1].phase = "dark"
    /\ runs[1].visited = {"v2"}
    /\ Len(runs[1].resolved) = 1
    /\ IdsOn(runs[1].resolved[1].chain) = {"v2", "v3"}
    /\ runs[1].resolved[1].result.kind = "oklch"
    /\ runs[2].pc = "done"
    /\ Len(runs[2].resolved) = 2
    /\ runs[2].resolved[2].chain =
           <<[id |-> "v2", modeId |-> "m2"], [id |-> "v3", modeId |-> "t1"]>>
    /\ runs[2].resolved[2].result.kind = "oklch"
    /\ runs[2].resolved[1] = runs[1].resolved[1]


\* the invocations on a chain that passed the cycle guard: all of them, but
\* for the last one of a call the guard stopped
PassedGuard(chain, stopped) ==
    IF stopped THEN SubSeq(chain, 1, Len(chain) - 1) ELSE chain

\* no variable is invoked twice among these invocations
DistinctIds(chain) ==
    \A i, j \in DOMAIN chain : chain[i].id = chain[j].id => i = j

\* the number of invocations of a chain is within the bound
ChainBounded(chain, stopped) ==
    /\ DistinctIds(PassedGuard(chain, stopped))
    /\ Len(chain) <= Cardinality(FileVariables) + 1
    /\ Len(chain) <= Cardinality(IdsOn(chain)) + 1

\* C19: on every chain, in progress or returned, the invocations that passed
\* the guard are on pairwise distinct variables and the visited set of a call
\* in progress has one id per invocation, so a chain has at most one
\* invocation more than there are variables; and under a host that settles
\* every promise, every run that was started ends (main() returns, or the
\* plugin is closed), so none of its top-level calls goes on for ever
C19_ResolutionTerminates ==
    /\ [](\A r \in DOMAIN runs :
              /\ ChainBounded(runs[r].chain, FALSE)
              /\ runs[r].pc \in AwaitingInResolver
                     => Cardinality(runs[r].visited) = Len(runs[r].chain)
              /\ \A k \in DOMAIN runs[r].resolved :
                     ChainBounded(runs[r].resolved[k].chain,
                                  runs[r].resolved[k].reason = "cycle"))
    /\ \A r \in 1..MaxRuns :
           (r \in DOMAIN runs)
               ~> (closed \/ (r \in DOMAIN runs /\ runs[r].pc = "done"))

\* C19 witness: in the two-node cycle base/a, base/b the top-level calls on
\* both variables ended on the guard, after three invocations, and the run
\* ended
C19_Witness ==
    \E r \in DOMAIN runs :
        /\ runs[r].pc = "done"
        /\ \E k \in DOMAIN runs[r].resolved :
               /\ runs[r].resolved[k].reason = "cycle"
               /\ runs[r].resolved[k].chain =
                      <<[id |-> "v6", modeId |-> "m1"],
                        [id |-> "v7", modeId |-> "m1"],
                        [id |-> "v6", modeId |-> "m1"]>>
        /\ \E k \in DOMAIN runs[r].resolved :
               /\ runs[r].resolved[k].reason = "cycle"
               /\ runs[r].resolved[k].id = "v7"


\* the value the variable of an invocation holds at the mode of the
\* invocation is a colour the resolver would convert
HoldsColour(call) ==
    LET value == valueAt(getVariableById(call.id), call.modeId)
    IN  isRgbObject(value) \/ isHexString(value)

\* C20: the value of a variable is inspected at most once on a chain (the
\* invocations that passed the guard are on distinct variables, whatever
\* their modes), and a chain that comes back to a variable under another mode
\* id stops there with null by the guard, also when the variable holds a
\* colour at that other mode
C20_GuardKeyedOnIdAlone ==
    \A r \in DOMAIN runs :
        /\ \A i, j \in DOMAIN runs[r].chain :
               (i < j /\ runs[r].chain[i].id = runs[r].chain[j].id)
                   => runs[r].pc = "done"
        /\ \A k \in DOMAIN runs[r].resolved :
               LET t == runs[r].resolved[k]
               IN  /\ \A id \in IdsOn(t.chain) :
                          Cardinality({i \in DOMAIN PassedGuard(t.chain, t.reason = "cycle") :
                                          t.chain[i].id = id}) <= 1
                   /\ \A i, j \in DOMAIN t.chain :
                          (/\ i < j
                           /\ t.chain[i].id = t.chain[j].id
                           /\ t.chain[i].modeId # t.chain[j].modeId)
                              => /\ j = Len(t.chain)
                                 /\ t.reason = "cycle"
                                 /\ t.result = Null
                                 /\ t.hex = <<>>

\* C20 witness: base/loop at m1 aliases loopback of Constants, which at its
\* one mode m2 aliases base/loop; the chain came back to base/loop at m2,
\* where it holds #000000, and returned null by the guard; the top-level
\* call on base/loop at m2 returned the colour
C20_Witness ==
    \E r \in DOMAIN runs :
        /\ Len(runs[r].resolved) = 2
        /\ runs[r].resolved[1].chain =
               <<[id |-> "v17", modeId |-> "m1"],
                 [id |-> "v18", modeId |-> "m2"],
                 [id |-> "v17", modeId |-> "m2"]>>
        /\ HoldsColour(runs[r].resolved[1].chain[3])
        /\ runs[r].resolved[1].reason = "cycle"
        /\ runs[r].resolved[1].result = Null
        /\ runs[r].resolved[2].chain = <<[id |-> "v17", modeId |-> "m2"]>>
        /\ runs[r].resolved[2].result.kind = "oklch"


====
